---- MODULE Spec2Model ----
(***************************************************************************)
(* A model of ui/analyse/src/ctrl.ts (AnalyseController): the move tree,   *)
(* the cursor, the jump protocol, the analysis engine life cycle and the   *)
(* evaluation cache policy.                                                *)
(*                                                                         *)
(* Nodes are referenced by their path: a JavaScript reference to a node    *)
(* held in this.node / this.nodeList / this.mainline is the path of that   *)
(* node at the time the reference was taken.  The tree, the engine         *)
(* controller (ceval), the evaluation cache and the throttle helper are    *)
(* not part of ctrl.ts; they are modelled from the design document.        *)
(***************************************************************************)
EXTENDS Integers, Sequences, FiniteSets, TLC

\* ------------------------------------------------------------ bounds
MaxMove == 2
MaxPly == 2
MaxGen == 1
MaxNodes == 4
MaxSent == 1
ChainLen == 11
MaxCp == 100
MaxSetting == 2

\* ------------------------------------------------- program constants
CrashDepth == 20
CachePly == 10
CacheCp == 99
ConfirmNodes == 10

Moves == 1..MaxMove

RECURSIVE PathsUpTo(_)
PathsUpTo(n) ==
  IF n = 0 THEN {<<>>}
  ELSE LET prev == PathsUpTo(n - 1)
       IN prev \cup {Append(p, m) : p \in {q \in prev : Len(q) = n - 1}, m \in Moves}

\* every path the bounded actions may name
Paths == PathsUpTo(MaxPly)

\* ------------------------------------------------------------- paths
root == <<>>

init(p) == IF p = <<>> THEN <<>> ELSE SubSeq(p, 1, Len(p) - 1)

last(p) == p[Len(p)]

\* treePath.contains(p1, p2): p1 starts with p2
contains(p1, p2) == Len(p2) <= Len(p1) /\ SubSeq(p1, 1, Len(p2)) = p2

\* ---------------------------------------------------- absent values
NoNode == <<-1>>
Undefined == <<-1>>
NoEval == [none |-> TRUE]
NoWork == [none |-> TRUE]

\* --------------------------------------------------- position facts
\* What the rules of the game fix for the position reached by a path: the move
\* that led to it (uci, san), whether the side to move is in check, whether it
\* has a legal move, whether the position is a repetition.
Orig(m) == m

Dest(m) == m + MaxMove

uci(p) == IF p = <<>> THEN Undefined ELSE <<Orig(last(p)), Dest(last(p))>>

sanCapture(p) == p # <<>> /\ last(p) % 2 = 0

check(p) == Len(p) >= 2 /\ p[1] = 1

sanCheck(p) == check(p)

noLegalMove(p) == Len(p) >= 2 /\ p[1] # p[2]

threefold(p) == Len(p) >= 2 /\ p[1] = 2 /\ p[2] = 2

ply(p) == Len(p)

destsOf(p) == IF noLegalMove(p) THEN "" ELSE "some"

Fen(g, p) == [gen |-> g, path |-> p, flip |-> FALSE]

\* a game set up from a position starts with the side to move in check or not:
\* the first game the controller is given starts from the initial position, the
\* games a reload brings may start in check
startsInCheck(g) == g >= 1

\* node.check: the check flag of the node of a position
checkAt(f) == IF f.path = root THEN startsInCheck(f.gen) ELSE check(f.path)

\* the position the engine searches in threat mode: the other side to move
ThreatFen(f) == [f EXCEPT !.flip = TRUE]

\* -------------------------------------------------------------- tree
\* A tree is a function from the paths of its nodes to the nodes.
NewNode(g, p, d) ==
  [children |-> <<>>, fen |-> Fen(g, p), dests |-> d, ceval |-> NoEval,
   threat |-> NoEval, eval |-> FALSE, comments |-> 0]

nodeAtPath(T, p) == IF p \in DOMAIN T THEN p ELSE NoNode

getNodeList(T, p) ==
  IF p \in DOMAIN T THEN [i \in 1..(Len(p) + 1) |-> SubSeq(p, 1, i - 1)] ELSE <<>>

treeOpsLast(nl) == IF nl = <<>> THEN NoNode ELSE nl[Len(nl)]

RECURSIVE mainlineFrom(_, _)
mainlineFrom(T, p) ==
  IF T[p].children = <<>> THEN <<p>>
  ELSE <<p>> \o mainlineFrom(T, Append(p, Head(T[p].children)))

mainlineNodeList(T) == mainlineFrom(T, root)

pathIsMainline(T, p) ==
  /\ p \in DOMAIN T
  /\ \A i \in 1..Len(p) : Head(T[SubSeq(p, 1, i - 1)].children) = p[i]

RECURSIVE lastPlyFrom(_, _)
lastPlyFrom(T, p) ==
  IF T[p].children = <<>> THEN ply(p)
  ELSE lastPlyFrom(T, Append(p, Head(T[p].children)))

lastPly(T) == lastPlyFrom(T, root)

\* treeOps.takePathWhile(mainline, n => n.ply <= ply)
mainlinePathToPlyOf(ml, n) ==
  LET ok == {i \in 1..Len(ml) : \A j \in 1..i : ply(ml[j]) <= n}
  IN IF ok = {} THEN root
     ELSE ml[CHOOSE i \in ok : \A j \in ok : j <= i]

Without(s, m) == SelectSeq(s, LAMBDA x : x # m)

\* tree.addNode: the new path, or NoNode when the parent path does not resolve
addNodePath(T, id, p) == IF p \in DOMAIN T THEN Append(p, id) ELSE NoNode

treeAddNode(T, g, id, d, p) ==
  LET np == Append(p, id)
  IN IF p \notin DOMAIN T \/ np \in DOMAIN T THEN T
     ELSE [q \in DOMAIN T \cup {np} |->
             IF q = np THEN NewNode(g, np, d)
             ELSE IF q = p THEN [T[p] EXCEPT !.children = Append(@, id)]
             ELSE T[q]]

treeAddDests(T, d, p) ==
  IF p \in DOMAIN T THEN [T EXCEPT ![p].dests = d] ELSE T

deleteNodeAt(T, p) ==
  IF p = root \/ p \notin DOMAIN T THEN T
  ELSE [q \in {r \in DOMAIN T : ~contains(r, p)} |->
          IF q = init(p) THEN [T[q] EXCEPT !.children = Without(@, last(p))]
          ELSE T[q]]

\* promoteAt: from the node up, move each node that is not the first child to
\* the front of its parent's children; without toMainline stop after the first
\* such move.
RECURSIVE promoteFrom(_, _, _, _)
promoteFrom(T, p, i, toMainline) ==
  IF i = 0 THEN T
  ELSE LET par == SubSeq(p, 1, i - 1)
           id == p[i]
       IN IF Head(T[par].children) = id
          THEN promoteFrom(T, p, i - 1, toMainline)
          ELSE LET T2 == [T EXCEPT ![par].children = <<id>> \o Without(@, id)]
               IN IF toMainline THEN promoteFrom(T2, p, i - 1, toMainline) ELSE T2

promoteAt(T, p, toMainline) ==
  IF p \in DOMAIN T THEN promoteFrom(T, p, Len(p), toMainline) ELSE T

\* treeOps.countChildrenAndComments(node): the subtree at p, p included
countNodes(T, p) == Cardinality({q \in DOMAIN T : contains(q, p)})

RECURSIVE sumComments(_, _)
sumComments(T, S) ==
  IF S = {} THEN 0
  ELSE LET q == CHOOSE x \in S : TRUE
       IN T[q].comments + sumComments(T, S \ {q})

countComments(T, p) == sumComments(T, {q \in DOMAIN T : contains(q, p)})

\* the "better evaluation" ordering of the evaluation records
isEvalBetter(a, b) ==
  \/ b = NoEval
  \/ a.depth > b.depth
  \/ (a.depth = b.depth /\ a.cloud /\ ~b.cloud)

\* the children of a node of the merged tree: its own, then the other's new ones
mergedChildren(T, O, q) ==
  IF q \notin DOMAIN O THEN T[q].children
  ELSE IF q \notin DOMAIN T THEN O[q].children
  ELSE T[q].children \o SelectSeq(O[q].children, LAMBDA m : Append(q, m) \notin DOMAIN T)

mergeEval(a, b) ==
  IF b = NoEval THEN a ELSE IF isEvalBetter(b, a) THEN b ELSE a

maxOf(a, b) == IF a >= b THEN a ELSE b

\* tree.merge(other)
treeMerge(T, O) ==
  [q \in DOMAIN T \cup DOMAIN O |->
     IF q \notin DOMAIN T THEN O[q]
     ELSE IF q \notin DOMAIN O THEN [T[q] EXCEPT !.children = mergedChildren(T, O, q)]
     ELSE [T[q] EXCEPT !.children = mergedChildren(T, O, q),
                       !.ceval = mergeEval(T[q].ceval, O[q].ceval),
                       !.threat = mergeEval(T[q].threat, O[q].threat),
                       !.eval = T[q].eval \/ O[q].eval,
                       !.dests = IF T[q].dests = "undefined" THEN O[q].dests ELSE @,
                       !.comments = maxOf(T[q].comments, O[q].comments)]]

removeCeval(T) == [q \in DOMAIN T |-> [T[q] EXCEPT !.ceval = NoEval, !.threat = NoEval]]

removeComputerVariations(T) == [q \in DOMAIN T |-> [T[q] EXCEPT !.eval = FALSE]]

\* ------------------------------------------------------------- state
VARIABLES
  tree,          \* this.tree
  path,          \* this.path
  node,          \* this.node (a reference: the node's path)
  nodeList,      \* this.nodeList (references)
  mainline,      \* this.mainline (references)
  onMainline,    \* this.onMainline
  threatMode,    \* this.threatMode
  justPlayed,    \* this.justPlayed
  justCaptured,  \* this.justCaptured
  ceval,         \* this.ceval: the engine instance, its settings and live work
  thr,           \* the throttle of startCeval: "idle", "wait" or "pending"
  fetching,      \* evaluation-cache requests in flight
  sent,          \* anaMove requests in flight
  destsReq,      \* anaDests requests in flight
  study,         \* opts.study: "none", "study" or "practice"
  practice,      \* this.practice is attached
  retro,         \* this.retro is attached
  showComputer,  \* this.showComputer()
  data,          \* this.data: the game generation and the evalPut flag
  fx,            \* the calls the last handler made on its collaborators, in order
  lastOp,        \* the last handler, its arguments, and whether it repeats the one before
  probe,         \* the last canPut question and its answer
  absorbed,      \* history: the nodes on which a crash left the engine as it was
  hooks          \* the arguments the last handler gave to the practice session's hooks

vars ==
  <<tree, path, node, nodeList, mainline, onMainline, threatMode, justPlayed,
    justCaptured, ceval, thr, fetching, sent, destsReq, study, practice, retro,
    showComputer, data, fx, lastOp, probe, absorbed, hooks>>

\* the controller as one value, as a handler finds it (with an empty call log)
S ==
  [tree |-> tree, path |-> path, node |-> node, nodeList |-> nodeList,
   mainline |-> mainline, onMainline |-> onMainline, threatMode |-> threatMode,
   justPlayed |-> justPlayed, justCaptured |-> justCaptured, ceval |-> ceval,
   thr |-> thr, fetching |-> fetching, sent |-> sent, destsReq |-> destsReq,
   study |-> study, practice |-> practice, retro |-> retro,
   showComputer |-> showComputer, data |-> data, fx |-> <<>>, hooks |-> <<>>]

\* the controller as a handler leaves it
Commit(s) ==
  /\ tree' = s.tree
  /\ path' = s.path
  /\ node' = s.node
  /\ nodeList' = s.nodeList
  /\ mainline' = s.mainline
  /\ onMainline' = s.onMainline
  /\ threatMode' = s.threatMode
  /\ justPlayed' = s.justPlayed
  /\ justCaptured' = s.justCaptured
  /\ ceval' = s.ceval
  /\ thr' = s.thr
  /\ fetching' = s.fetching
  /\ sent' = s.sent
  /\ destsReq' = s.destsReq
  /\ study' = s.study
  /\ practice' = s.practice
  /\ retro' = s.retro
  /\ showComputer' = s.showComputer
  /\ data' = s.data
  /\ fx' = s.fx
  /\ hooks' = s.hooks

Op(name, arg) ==
  [name |-> name, arg |-> arg,
   again |-> (lastOp.name = name /\ lastOp.arg = arg)]

Has(f, t) == \E i \in 1..Len(f) : f[i] = t

Handled(name, arg, s) ==
  /\ Commit(s)
  /\ lastOp' = Op(name, arg)
  /\ absorbed' = IF Has(s.fx, "log.remain") THEN absorbed \cup {node} ELSE absorbed
  /\ UNCHANGED probe

call(s, t) == [s EXCEPT !.fx = Append(@, t)]

callIf(s, c, t) == IF c THEN call(s, t) ELSE s


\* ------------------------------------------------------ engine (ceval)
NormalMaxDepth == CrashDepth

InfiniteMaxDepth == CrashDepth + 1

Depths == {CrashDepth - 1, CrashDepth}

effectiveMaxDepth(c) == IF c.infinite THEN InfiniteMaxDepth ELSE NormalMaxDepth

\* ceval.stop()
cevalStop(s) ==
  LET w == s.ceval.work
  IN [call(s, "ceval.stop") EXCEPT
        !.ceval.work = IF w = NoWork THEN w ELSE [w EXCEPT !.running = FALSE]]

\* ceval.toggle()
cevalToggle(s) ==
  IF ~s.ceval.possible THEN s
  ELSE LET s1 == cevalStop(s)
       IN [s1 EXCEPT !.ceval.enabled = ~s.ceval.enabled]

\* ceval.start(path, nodeList, threatMode, false)
cevalStart(s, p, nl, tm) ==
  LET f == s.tree[treeOpsLast(nl)].fen
  IN [call(s, "ceval.start") EXCEPT
        !.ceval.work = [path |-> p, fen |-> IF tm THEN ThreatFen(f) ELSE f,
                        threatMode |-> tm, running |-> TRUE,
                        maxDepth |-> effectiveMaxDepth(s.ceval)]]

\* ------------------------------------------------- evaluation cache
canEvalGet(inStudy, nodePly) == inStudy \/ nodePly < CachePly

abs(x) == IF x < 0 THEN -x ELSE x

\* a canPut that forgets the ply of the node
canPutAnyPly(evalPut, inStudy, nodePly, cev) ==
  evalPut /\ (inStudy \/ (cev.mate = 0 /\ abs(cev.cp) < CacheCp))

\* canPut of instanciateEvalCache, on a node given by its ply and its ceval
\* (mate = 0: no mate announced)
canPut(evalPut, inStudy, nodePly, cev) ==
  /\ evalPut
  /\ canEvalGet(inStudy, nodePly)
  /\ (inStudy \/ (nodePly < CachePly /\ cev.mate = 0 /\ abs(cev.cp) < CacheCp))

\* evalCache.fetch(path, multiPv): one request per path at a time
evalCacheFetch(s, p) ==
  LET s1 == call(s, "evalCache.fetch")
  IN IF canEvalGet(s1.study # "none", ply(s1.node)) /\ ~\E r \in s1.fetching : r.path = p
     THEN [s1 EXCEPT !.fetching = @ \cup {[path |-> p, fen |-> s1.tree[s1.node].fen]}]
     ELSE s1

\* ------------------------------------------------------- controller
setPath(s, p) ==
  LET nl == getNodeList(s.tree, p)
  IN [s EXCEPT !.path = p,
               !.nodeList = nl,
               !.node = treeOpsLast(nl),
               !.mainline = mainlineNodeList(s.tree),
               !.onMainline = pathIsMainline(s.tree, p)]

setAutoShapes(s) == call(s, "setAutoShapes")

\* getDests: ask the server for the destinations of the current node
getDests(s) ==
  IF s.tree[s.node].dests = "undefined"
  THEN [call(s, "sendAnaDests") EXCEPT !.destsReq = @ \cup {s.path}]
  ELSE s

showGround(s) ==
  LET s1 == IF s.tree[s.node].dests = "undefined" THEN getDests(s) ELSE s
  IN setAutoShapes(call(s1, "chessground.set"))

\* this.node.check
nodeCheck(s) == checkAt(s.tree[s.node].fen)

gameOver(s) ==
  IF s.tree[s.node].dests # "" THEN "false"
  ELSE IF nodeCheck(s) THEN "checkmate" ELSE "draw"

\* an engine that is set on finished games too
canUseCevalAlways(s) == TRUE

canUseCeval(s) == gameOver(s) = "false" /\ ~threefold(s.node)

\* a body that asks the cache once per path
startCevalNowOncePerPath(s) ==
  IF s.ceval.enabled
  THEN IF canUseCeval(s)
       THEN LET s1 == cevalStart(s, s.path, s.nodeList, s.threatMode)
            IN IF \E r \in s1.fetching : r.path = s1.path THEN s1
               ELSE evalCacheFetch(s1, s1.path)
       ELSE cevalStop(s)
  ELSE s

\* the body of startCeval, run by the throttle
startCevalNow(s) ==
  IF s.ceval.enabled
  THEN IF canUseCeval(s)
       THEN evalCacheFetch(cevalStart(s, s.path, s.nodeList, s.threatMode), s.path)
       ELSE cevalStop(s)
  ELSE s

\* a throttle that drops the calls made within the 800ms
startCevalNoTrailing(s) ==
  LET s1 == call(s, "startCeval")
  IN IF s1.thr = "idle" THEN startCevalNow([s1 EXCEPT !.thr = "wait"]) ELSE s1

\* startCeval = throttle(800, false, ...): run now when the last run is more than
\* 800ms old, else once when the 800ms have passed
startCeval(s) ==
  LET s1 == call(s, "startCeval")
  IN IF s1.thr = "idle" THEN startCevalNow([s1 EXCEPT !.thr = "wait"])
     ELSE [s1 EXCEPT !.thr = "pending"]

\* uci.indexOf(justPlayed || '') !== 0
IsPrefix(a, b) == Len(a) <= Len(b) /\ SubSeq(b, 1, Len(a)) = a

orEmpty(jp) == IF jp = Undefined THEN <<>> ELSE jp

jumpSound(s) ==
  LET u == uci(s.node)
      s1 == IF u = Undefined THEN call(s, "sound.move")
            ELSE IF ~IsPrefix(orEmpty(s.justPlayed), u)
                 THEN IF sanCapture(s.node) THEN call(s, "sound.capture")
                      ELSE call(s, "sound.move")
                 ELSE s
  IN callIf(s1, sanCheck(s.node), "sound.check")

\* the study hears of the jump first
jumpNotifyStudyFirst(s) ==
  callIf(callIf(callIf(s, s.study # "none", "study.onJump"),
                s.retro, "retro.onJump"),
         s.practice, "practice.onJump")

\* if (this.retro) ...; if (this.practice) ...; if (this.study) ...
jumpNotify(s) ==
  callIf(callIf(callIf(s, s.retro, "retro.onJump"),
                s.practice, "practice.onJump"),
         s.study # "none", "study.onJump")

jumpWith(s, p, pathChanged) ==
  LET s1 == showGround(call(setPath(s, p), "setPath"))
      s2 == IF pathChanged
            THEN LET a == callIf(s1, s1.study # "none", "study.setPath")
                     b == jumpSound(a)
                     c == [b EXCEPT !.threatMode = FALSE]
                 IN startCeval(cevalStop(c))
            ELSE s1
      s3 == [s2 EXCEPT !.justPlayed = Undefined, !.justCaptured = FALSE]
      s4 == call(s3, "explorer.setNode")
  IN IF pathChanged THEN jumpNotify(s4) ELSE s4

\* a jump that takes every path for a new one
jumpUngated(s, p) == jumpWith(s, p, TRUE)

jump(s, p) == jumpWith(s, p, p # s.path)

\* practice.preUserJump(from, to), practice.postUserJump(from, to)
practiceHook(s, t, from, to) ==
  [call(s, t) EXCEPT !.hooks = Append(@, [hook |-> t, from |-> from, to |-> to])]

\* a practice branch that tells the session of the jump before it is made
userJumpPracticePostFirst(s, p) ==
  LET prev == s.path
      s1 == practiceHook(s, "practice.preUserJump", prev, p)
      s2 == practiceHook(s1, "practice.postUserJump", prev, s1.path)
  IN jump(s2, p)

\* const prev = this.path; preUserJump(prev, path); jump(path);
\* postUserJump(prev, this.path)
userJumpPractice(s, p) ==
  LET prev == s.path
      s1 == practiceHook(s, "practice.preUserJump", prev, p)
      s2 == jump(s1, p)
  IN practiceHook(s2, "practice.postUserJump", prev, s2.path)

userJump(s, p) ==
  LET s1 == call(call(s, "autoplay.stop"), "selectSquare")
  IN IF s1.practice THEN userJumpPractice(s1, p) ELSE jump(s1, p)

\* a study that is never asked
canJumpToAlways(s, p, can) == TRUE

\* !this.study || this.study.canJumpTo(path); can is the study's answer
canJumpTo(s, p, can) == s.study = "none" \/ can

userJumpIfCan(s, p, can) ==
  LET s1 == callIf(s, s.study # "none", "study.canJumpTo")
  IN IF canJumpTo(s1, p, can) THEN userJump(s1, p) ELSE s1

\* a failure branch that jumps all the same
cannotAddNodeJumps(s) == call(jump(call(s, "log.cannotAddNode"), s.path), "redraw")

\* console.log('Cannot addNode', node, path); return this.redraw();
cannotAddNode(s) == call(call(s, "log.cannotAddNode"), "redraw")

addNode(s, g, id, p) ==
  LET newPath == addNodePath(s.tree, id, p)
  IN IF newPath = NoNode
     THEN cannotAddNode(s)
     ELSE LET s1 == [s EXCEPT !.tree = treeAddNode(s.tree, g, id, destsOf(newPath), p)]
          IN call(call(jump(s1, newPath), "redraw"), "playPremove")

\* an addDests that leaves the engine to itself
addDestsNoStop(s, d, p) ==
  LET s1 == [s EXCEPT !.tree = treeAddDests(s.tree, d, p)]
      s2 == IF p = s1.path THEN call(showGround(s1), "redraw") ELSE s1
  IN call(s2, "playPremove")

addDests(s, d, p) ==
  LET s1 == [s EXCEPT !.tree = treeAddDests(s.tree, d, p)]
      s2 == IF p = s1.path
            THEN LET a == call(showGround(s1), "redraw")
                 IN IF gameOver(a) # "false" THEN cevalStop(a) ELSE a
            ELSE s1
  IN call(s2, "playPremove")

\* a deletion that never asks
needsConfirmNever(T, p) == FALSE

needsConfirm(T, p) == countNodes(T, p) >= ConfirmNodes \/ countComments(T, p) > 0

deleteNode(s, p, confirmed) ==
  IF nodeAtPath(s.tree, p) = NoNode THEN s
  ELSE IF needsConfirm(s.tree, p) /\ ~confirmed THEN call(s, "confirm")
  ELSE LET s0 == callIf(s, needsConfirm(s.tree, p), "confirm")
           s1 == [s0 EXCEPT !.tree = deleteNodeAt(s.tree, p)]
           s2 == IF contains(s1.path, p) THEN userJump(s1, init(p))
                 ELSE jump(s1, s1.path)
       IN callIf(s2, s2.study # "none", "study.deleteNode")

promote(s, p, toMainline) ==
  LET s1 == jump([s EXCEPT !.tree = promoteAt(s.tree, p, toMainline)], p)
  IN callIf(s1, s1.study # "none", "study.promote")

storeEval(nd, ev, tm) ==
  IF tm
  THEN IF nd.threat = NoEval \/ isEvalBetter(ev, nd.threat) \/ nd.threat.maxDepth < ev.maxDepth
       THEN [nd EXCEPT !.threat = ev]
       ELSE nd
  ELSE IF isEvalBetter(ev, nd.ceval) THEN [nd EXCEPT !.ceval = ev]
  ELSE IF nd.ceval # NoEval /\ ev.maxDepth > nd.ceval.maxDepth
       THEN [nd EXCEPT !.ceval.maxDepth = ev.maxDepth]
       ELSE nd

\* the mutator's first line: the evaluation is not for this node's position
discardsNever(nd, ev, tm) == FALSE

discards(nd, ev, tm) == nd.fen # ev.fen /\ ~tm

\* the evaluation is for the node the cursor is on
atCursorAlways(s, p) == TRUE

atCursor(s, p) == p = s.path

onNewCeval(s, ev, p, tm) ==
  IF p \notin DOMAIN s.tree THEN s
  ELSE IF discards(s.tree[p], ev, tm) THEN s
  ELSE LET s1 == [s EXCEPT !.tree[p] = storeEval(s.tree[p], ev, tm)]
       IN IF atCursor(s1, p)
          THEN LET a == setAutoShapes(s1)
                   b == IF ~tm
                        THEN LET b1 == callIf(a, a.retro, "retro.onCeval")
                                 b2 == callIf(b1, b1.practice, "practice.onCeval")
                                 b3 == callIf(b2, b2.study = "practice", "studyPractice.onCeval")
                                 b4 == call(b3, "evalCache.onCeval")
                             IN IF ev.cloud /\ ev.depth >= effectiveMaxDepth(b4.ceval)
                                THEN cevalStop(b4) ELSE b4
                        ELSE a
               IN call(b, "redraw")
          ELSE s1

\* instanciateCeval(failsafe): destroy the live instance, make a new one
instanciateCeval(s, failsafe) ==
  LET s1 == call(call(s, "ceval.destroy"),
                 IF failsafe THEN "cevalCtrl.failsafe" ELSE "cevalCtrl")
  IN [s1 EXCEPT !.ceval.failsafe = failsafe, !.ceval.work = NoWork]

\* a crash that never counts the node as retried
remainsAlways(cv) == cv # NoEval /\ cv.depth >= CrashDepth

\* ceval && ceval.depth >= 20 && !ceval.retried
remains(cv) == cv # NoEval /\ cv.depth >= CrashDepth /\ ~cv.retried

onCrash(s) ==
  LET cv == s.tree[s.node].ceval
  IN IF s.ceval.pnaclSupported
     THEN IF remains(cv)
          THEN [call(s, "log.remain") EXCEPT !.tree[s.node].ceval.retried = TRUE]
          ELSE startCeval(instanciateCeval(call(s, "log.fallback"), TRUE))
     ELSE s

togglePractice(s) ==
  IF s.practice \/ ~s.ceval.possible
  THEN setAutoShapes([s EXCEPT !.practice = FALSE])
  ELSE LET s1 == IF s.retro THEN setAutoShapes([s EXCEPT !.retro = FALSE]) ELSE s
       IN setAutoShapes([s1 EXCEPT !.practice = TRUE])

toggleRetro(s) ==
  IF s.retro THEN setAutoShapes([s EXCEPT !.retro = FALSE])
  ELSE LET s1 == [s EXCEPT !.retro = TRUE]
           s2 == IF s1.practice THEN togglePractice(s1) ELSE s1
       IN setAutoShapes(s2)

toggleCeval(s) ==
  LET s1 == startCeval(setAutoShapes(cevalToggle(s)))
      s2 == IF ~s1.ceval.enabled
            THEN LET a == [s1 EXCEPT !.threatMode = FALSE]
                 IN IF a.practice THEN togglePractice(a) ELSE a
            ELSE s1
  IN call(s2, "redraw")

\* a toggle that flips the mode whatever the engine and the position are
toggleThreatModeUnguarded(s) ==
  LET s2 == [s EXCEPT !.threatMode = ~s.threatMode]
      s3 == IF s2.threatMode /\ s2.practice THEN togglePractice(s2) ELSE s2
  IN call(startCeval(setAutoShapes(s3)), "redraw")

toggleThreatMode(s) ==
  IF nodeCheck(s) THEN s
  ELSE LET s1 == IF ~s.ceval.enabled THEN cevalToggle(s) ELSE s
       IN IF ~s1.ceval.enabled THEN s1
          ELSE LET s2 == [s1 EXCEPT !.threatMode = ~s1.threatMode]
                   s3 == IF s2.threatMode /\ s2.practice THEN togglePractice(s2) ELSE s2
               IN call(startCeval(setAutoShapes(s3)), "redraw")

\* a reset that leaves the engine running
cevalResetNoStop(s) ==
  LET s2 == IF ~s.ceval.enabled THEN cevalToggle(s) ELSE s
  IN call(startCeval(s2), "redraw")

cevalReset(s) ==
  LET s1 == cevalStop(s)
      s2 == IF ~s1.ceval.enabled THEN cevalToggle(s1) ELSE s1
  IN call(startCeval(s2), "redraw")

cevalSetInfinite(s, v) == cevalReset([s EXCEPT !.ceval.infinite = v])

cevalSetMultiPv(s, v) ==
  cevalReset([s EXCEPT !.ceval.multiPv = v, !.tree = removeCeval(s.tree)])

cevalSetThreads(s, v) == cevalReset([s EXCEPT !.ceval.threads = v])

cevalSetHashSize(s, v) == cevalReset([s EXCEPT !.ceval.hashSize = v])

onToggleComputer(s) ==
  IF ~s.showComputer
  THEN LET s1 == [s EXCEPT !.tree = removeComputerVariations(s.tree)]
           s2 == IF s1.ceval.enabled THEN toggleCeval(s1) ELSE s1
       IN call(s2, "chessground.clearAutoShapes")
  ELSE setAutoShapes(s)

toggleComputer(s) ==
  LET value == ~s.showComputer
      s1 == [s EXCEPT !.showComputer = value]
      s2 == IF ~value /\ s1.practice THEN togglePractice(s1) ELSE s1
  IN onToggleComputer(call(s2, "opts.onToggleComputer"))

mergeAnalysisData(s, O) ==
  LET s1 == [s EXCEPT !.tree = treeMerge(s.tree, O)]
      s2 == IF ~s1.showComputer
            THEN [s1 EXCEPT !.tree = removeComputerVariations(s1.tree)] ELSE s1
  IN call(callIf(s2, s2.retro, "retro.onMergeAnalysisData"), "redraw")

\* initialize(data, merge) and the rest of reloadData
reloadData(s, g, T, mergeFlag) ==
  LET s1 == [s EXCEPT !.data.gen = g,
                      !.tree = IF mergeFlag THEN treeMerge(T, s.tree) ELSE T]
      s2 == setPath(call(s1, "socket.clearCache"), root)
  IN call(instanciateCeval(s2, FALSE), "makeEvalCache")

\* a move that always sounds like a capture
moveSoundCapture(capture) == "sound.capture"

\* this.sound[capture ? 'capture' : 'move']()
moveSound(capture) == IF capture THEN "sound.capture" ELSE "sound.move"

\* userMove(orig, dest, capture) with no promotion, then sendMove
userMove(s, m) ==
  LET np == Append(s.path, m)
      s1 == [s EXCEPT !.justPlayed = <<Orig(m)>>]
      s2 == call(s1, moveSound(sanCapture(np)))
      s3 == IF sanCapture(np) THEN [s2 EXCEPT !.justCaptured = TRUE] ELSE s2
      s4 == callIf(s3, s3.practice, "practice.onUserMove")
      s5 == [call(s4, "sendAnaMove") EXCEPT
               !.sent = @ \cup {[path |-> s.path, id |-> m, gen |-> s.tree[s.node].fen.gen]}]
  IN call(call(s5, "preparePremoving"), "redraw")

\* ------------------------------------------------------ construction
\* the tree of the data the server delivers: the first k moves of the game
DataTree(g, k) ==
  [q \in {r \in Paths : Len(r) <= k /\ \A i \in 1..Len(r) : r[i] = 1} |->
     [NewNode(g, q, "undefined") EXCEPT !.children = IF Len(q) < k THEN <<1>> ELSE <<>>]]

\* the tree of the server's analysis: the game's moves, each with a server
\* evaluation, and with v a computer variation at the root
AnalysisTree(g, k, v) ==
  LET G == DataTree(g, k)
      D == DOMAIN G \cup (IF v THEN {<<MaxMove>>} ELSE {})
  IN [q \in D |->
        IF q \in DOMAIN G
        THEN [G[q] EXCEPT !.eval = TRUE,
                          !.children = IF q = root /\ v THEN @ \o <<MaxMove>> ELSE @]
        ELSE [NewNode(g, q, "undefined") EXCEPT !.eval = TRUE]]

\* a game of ChainLen moves whose destinations are known, with c comments on
\* its last move
ChainTree(c) ==
  [q \in {[i \in 1..k |-> 1] : k \in 0..ChainLen} |->
     [NewNode(0, q, "some") EXCEPT
        !.children = IF Len(q) < ChainLen THEN <<1>> ELSE <<>>,
        !.comments = IF Len(q) = ChainLen THEN c ELSE 0]]

\* a game of two moves with two variations: <<1, 2>> is a checkmate and
\* <<2, 2>> a repetition; the destinations of every node but the root are known
BurstTree ==
  LET add(T, q) == treeAddNode(T, 0, last(q), destsOf(q), init(q))
  IN add(add(add(add(DataTree(0, 0), <<1>>), <<1, 2>>), <<2>>), <<2, 2>>)

NoProbe == [evalPut |-> FALSE, study |-> FALSE, ply |-> 0, mate |-> 0, cp |-> 0, result |-> FALSE]

\* the fields before the constructor's calls
Fresh(T, st, sc, en, pos, pn, ep) ==
  [tree |-> T, path |-> root, node |-> root, nodeList |-> <<root>>,
   mainline |-> <<root>>, onMainline |-> TRUE, threatMode |-> FALSE,
   justPlayed |-> Undefined, justCaptured |-> FALSE,
   ceval |-> [possible |-> pos, pnaclSupported |-> pn, failsafe |-> FALSE,
              enabled |-> pos /\ en, infinite |-> FALSE, multiPv |-> 1,
              threads |-> 1, hashSize |-> 1, work |-> NoWork],
   thr |-> "idle", fetching |-> {}, sent |-> {}, destsReq |-> {},
   study |-> st, practice |-> FALSE, retro |-> FALSE, showComputer |-> sc,
   data |-> [gen |-> 0, evalPut |-> ep], fx |-> <<>>, hooks |-> <<>>]

\* the constructor, from setPath(initialPath) on
Constructed(T, st, sc, en, pos, pn, ep) ==
  LET s1 == showGround(setPath(Fresh(T, st, sc, en, pos, pn, ep), root))
      s2 == call(startCeval(onToggleComputer(s1)), "explorer.setNode")
  IN IF s2.study = "practice" THEN togglePractice(s2) ELSE s2

Begin(s) ==
  /\ tree = s.tree
  /\ path = s.path
  /\ node = s.node
  /\ nodeList = s.nodeList
  /\ mainline = s.mainline
  /\ onMainline = s.onMainline
  /\ threatMode = s.threatMode
  /\ justPlayed = s.justPlayed
  /\ justCaptured = s.justCaptured
  /\ ceval = s.ceval
  /\ thr = s.thr
  /\ fetching = s.fetching
  /\ sent = s.sent
  /\ destsReq = s.destsReq
  /\ study = s.study
  /\ practice = s.practice
  /\ retro = s.retro
  /\ showComputer = s.showComputer
  /\ data = s.data
  /\ fx = s.fx
  /\ hooks = s.hooks
  /\ lastOp = [name |-> "constructor", arg |-> <<>>, again |-> FALSE]
  /\ probe = NoProbe
  /\ absorbed = {}

\* ------------------------------------------------------------ actions
Jump(p) == Handled("jump", p, jump(S, p))

UserJump(p) == Handled("userJump", p, userJump(S, p))

UserJumpIfCan(p, can) ==
  Handled("userJumpIfCan", [path |-> p, can |-> can], userJumpIfCan(S, p, can))

UserMove(m) ==
  /\ Len(path) < MaxPly
  /\ Cardinality(DOMAIN tree) < MaxNodes
  /\ Cardinality(sent) < MaxSent
  /\ tree[node].dests # ""
  /\ Handled("userMove", <<m>>, userMove(S, m))

\* the server's answer to an anaMove: the new node and the path it was sent for
AddNode(r) ==
  Handled("addNode", <<r.path, r.id>>, addNode([S EXCEPT !.sent = @ \ {r}], r.gen, r.id, r.path))

\* the server's answer to an anaDests
AddDests(p) ==
  Handled("addDests", p, addDests([S EXCEPT !.destsReq = @ \ {p}], destsOf(p), p))

DeleteNode(p, confirmed) ==
  Handled("deleteNode", <<p, confirmed>>, deleteNode(S, p, confirmed))

Promote(p, toMainline) ==
  Handled("promote", <<p, toMainline>>, promote(S, p, toMainline))

ReloadData(g, k, mergeFlag) ==
  Handled("reloadData", <<g, k, mergeFlag>>, reloadData(S, g, DataTree(g, k), mergeFlag))

MergeAnalysisData(k, v) ==
  Handled("mergeAnalysisData", <<k, v>>, mergeAnalysisData(S, AnalysisTree(data.gen, k, v)))

ToggleComputer == Handled("toggleComputer", <<>>, toggleComputer(S))

ToggleCeval == Handled("toggleCeval", <<>>, toggleCeval(S))

ToggleThreatMode == Handled("toggleThreatMode", <<>>, toggleThreatMode(S))

TogglePractice == Handled("togglePractice", <<>>, togglePractice(S))

ToggleRetro == Handled("toggleRetro", <<>>, toggleRetro(S))

CevalSetInfinite(v) == Handled("cevalSetInfinite", <<v>>, cevalSetInfinite(S, v))

CevalSetMultiPv(v) == Handled("cevalSetMultiPv", <<v>>, cevalSetMultiPv(S, v))

CevalSetThreads(v) == Handled("cevalSetThreads", <<v>>, cevalSetThreads(S, v))

CevalSetHashSize(v) == Handled("cevalSetHashSize", <<v>>, cevalSetHashSize(S, v))

\* the 800ms of the startCeval throttle pass
StartCevalTimer ==
  /\ thr # "idle"
  /\ Handled("startCeval.timer", <<>>,
             IF thr = "pending" THEN startCevalNow([S EXCEPT !.thr = "wait"])
             ELSE [S EXCEPT !.thr = "idle"])

\* the engine reports on its work, also after it was told to stop
EngineEmit(d) ==
  /\ ceval.work # NoWork
  /\ LET w == ceval.work
         ev == [fen |-> w.fen, depth |-> d, maxDepth |-> w.maxDepth,
                cloud |-> FALSE, retried |-> FALSE]
     IN Handled("onNewCeval", [src |-> "engine", path |-> w.path, threatMode |-> w.threatMode,
                               fen |-> ev.fen, depth |-> d],
                onNewCeval(S, ev, w.path, w.threatMode))

\* the evaluation cache passes the server's answer to a fetch on
CacheReceive(r, d) ==
  LET ev == [fen |-> r.fen, depth |-> d, maxDepth |-> d, cloud |-> TRUE, retried |-> FALSE]
  IN Handled("onNewCeval", [src |-> "cache", path |-> r.path, threatMode |-> FALSE,
                             fen |-> ev.fen, depth |-> d],
             onNewCeval([S EXCEPT !.fetching = @ \ {r}], ev, r.path, FALSE))

EngineCrash ==
  /\ ceval.work # NoWork
  /\ Handled("onCrash", <<>>, onCrash(S))

\* a question to canPut
CanPutProbe(ep, st, n, mt, c) ==
  /\ probe' = [evalPut |-> ep, study |-> st, ply |-> n, mate |-> mt, cp |-> c,
               result |-> canPut(ep, st, n, [mate |-> mt, cp |-> c])]
  /\ UNCHANGED <<tree, path, node, nodeList, mainline, onMainline, threatMode,
                 justPlayed, justCaptured, ceval, thr, fetching, sent, destsReq,
                 study, practice, retro, showComputer, data, fx, lastOp, absorbed,
                 hooks>>

\* ------------------------------------------------------ specifications
Init ==
  \E st \in {"none", "study"}, k \in 0..1 :
    Begin(Constructed(DataTree(0, k), st, TRUE, TRUE, TRUE, TRUE, TRUE))

Next ==
  \/ \E p \in DOMAIN tree : Jump(p)
  \/ \E p \in DOMAIN tree : UserJump(p)
  \/ \E p \in DOMAIN tree, can \in BOOLEAN : UserJumpIfCan(p, can)
  \/ \E m \in Moves : UserMove(m)
  \/ \E r \in sent : AddNode(r)
  \/ \E p \in destsReq : AddDests(p)
  \/ \E p \in Paths \ {root}, c \in BOOLEAN : DeleteNode(p, c)
  \/ \E p \in DOMAIN tree \ {root}, tm \in BOOLEAN : Promote(p, tm)
  \/ \E g \in data.gen..MaxGen, k \in 0..1, mf \in BOOLEAN : ReloadData(g, k, mf)
  \/ \E k \in 0..1, v \in BOOLEAN : MergeAnalysisData(k, v)
  \/ ToggleComputer
  \/ ToggleCeval
  \/ ToggleThreatMode
  \/ TogglePractice
  \/ ToggleRetro
  \/ \E v \in BOOLEAN : CevalSetInfinite(v)
  \/ StartCevalTimer
  \/ \E d \in Depths : EngineEmit(d)
  \/ \E r \in fetching, d \in Depths : CacheReceive(r, d)
  \/ EngineCrash

Spec == Init /\ [][Next]_vars

\* jumps, with the moves, collaborators and throttle that vary what a jump meets
NextJump ==
  \/ \E p \in DOMAIN tree : Jump(p)
  \/ \E p \in DOMAIN tree : UserJump(p)
  \/ \E m \in Moves : UserMove(m)
  \/ \E r \in sent : AddNode(r)
  \/ TogglePractice
  \/ ToggleRetro
  \/ StartCevalTimer

SpecJump == Init /\ [][NextJump]_vars

InitEval == Begin(Constructed(DataTree(0, 1), "none", TRUE, TRUE, TRUE, TRUE, TRUE))

\* the engine and the cache at work while the cursor moves and the game is reloaded
NextEval ==
  \/ \E p \in DOMAIN tree : Jump(p)
  \/ StartCevalTimer
  \/ \E d \in Depths : EngineEmit(d)
  \/ \E r \in fetching : CacheReceive(r, CrashDepth)
  \/ ToggleThreatMode
  \/ \E k \in 0..1 : data.gen < MaxGen /\ ReloadData(data.gen + 1, k, FALSE)

SpecEval == InitEval /\ [][NextEval]_vars

\* threat mode and the depth setting while the engine reports
NextThreat ==
  \/ \E p \in DOMAIN tree : Jump(p)
  \/ StartCevalTimer
  \/ \E d \in Depths : EngineEmit(d)
  \/ ToggleThreatMode
  \/ \E v \in BOOLEAN : CevalSetInfinite(v)

InitThreat == Begin(Constructed(DataTree(0, 0), "none", TRUE, TRUE, TRUE, TRUE, TRUE))

SpecThreat == InitThreat /\ [][NextThreat]_vars

\* crashes of the engine while it reports, the cursor moves and the game is reloaded
NextCrash ==
  \/ \E p \in DOMAIN tree : Jump(p)
  \/ StartCevalTimer
  \/ \E d \in Depths : EngineEmit(d)
  \/ EngineCrash
  \/ \E k \in 0..1 : ReloadData(data.gen, k, FALSE)

InitCrash ==
  \E pn \in BOOLEAN :
    Begin(Constructed(DataTree(0, 1), "none", TRUE, TRUE, TRUE, pn, TRUE))

SpecCrash == InitCrash /\ [][NextCrash]_vars

\* ------------------------------------------------------------ claims
SoundTags == {"sound.move", "sound.capture", "sound.check"}

EngineRestartTags == {"ceval.stop", "startCeval"}

JumpNotifyTags == {"study.setPath", "retro.onJump", "practice.onJump", "study.onJump"}

HasAny(f, tags) == \E i \in 1..Len(f) : f[i] \in tags

Cycles(f) == IF Has(f, "ceval.stop") /\ Has(f, "startCeval") THEN 1 ELSE 0

\* C1 as stated: two jump(p) in succession make one cycle of sound, engine stop
\* and restart and notifications (explorer, practice, retrospective, study)
\* between them, and the second call makes none of these calls.
C1_TwoJumpsOneCycle ==
  [][\A p \in DOMAIN tree :
       (lastOp' = Op("jump", p) /\ lastOp'.again) =>
         /\ Cycles(fx) + Cycles(fx') = 1
         /\ ~HasAny(fx', SoundTags \cup EngineRestartTags \cup JumpNotifyTags
                         \cup {"explorer.setNode"})]_vars

\* C1 amended: jump(p) stops the engine and asks for its restart exactly when p
\* is not the current path, and plays a sound or notifies the study,
\* retrospective or practice collaborator only then; so the second of two
\* jump(p) in succession does none of this. Every jump, the second included,
\* recomputes the cursor, renders the board and calls explorer.setNode.
C1_JumpCycleIffPathChanged ==
  [][\A p \in DOMAIN tree :
       lastOp' = Op("jump", p) =>
         /\ (Has(fx', "ceval.stop") /\ Has(fx', "startCeval")) <=> p # path
         /\ HasAny(fx', SoundTags \cup EngineRestartTags \cup JumpNotifyTags) => p # path
         /\ lastOp'.again =>
              ~HasAny(fx', SoundTags \cup EngineRestartTags \cup JumpNotifyTags)
         /\ Has(fx', "setPath") /\ Has(fx', "chessground.set")
         /\ Has(fx', "explorer.setNode")
         /\ path' = p /\ nodeList' = getNodeList(tree', p)]_vars

\* C1 witness: a jump to the path of the jump before it has run
C1_Witness ==
  /\ lastOp.name = "jump" /\ lastOp.again
  /\ path # root /\ practice /\ study # "none"
  /\ Has(fx, "explorer.setNode") /\ ~Has(fx, "ceval.stop")

Cursor == <<path, node, nodeList, mainline, onMainline>>

StoredDepth(e) == IF e = NoEval THEN -1 ELSE e.depth

\* C2 as stated: an evaluation (not in threat mode) of the engine's for a path
\* the cursor has left is discarded: no node changes, nothing is redrawn or
\* notified.
C2_StaleEvalDiscarded ==
  [][(/\ lastOp'.name = "onNewCeval"
      /\ lastOp'.arg.src = "engine"
      /\ ~lastOp'.arg.threatMode
      /\ lastOp'.arg.path # path) =>
       (tree' = tree /\ fx' = <<>>)]_vars

\* C2 amended: an evaluation (not in threat mode) of the engine's for a path P
\* the cursor has left sets no auto-shapes, notifies no overlay or cache, stops
\* no engine and redraws nothing, and leaves the cursor and every node but the
\* one at P as they are; the node at P, when it still holds the position, takes
\* the evaluation if it is deeper than the one stored.
C2_StaleEvalStoredSilently ==
  [][(/\ lastOp'.name = "onNewCeval"
      /\ lastOp'.arg.src = "engine"
      /\ ~lastOp'.arg.threatMode
      /\ lastOp'.arg.path # path) =>
       LET a == lastOp'.arg
       IN /\ fx' = <<>>
          /\ Cursor' = Cursor /\ ceval' = ceval /\ threatMode' = threatMode
          /\ DOMAIN tree' = DOMAIN tree
          /\ \A q \in DOMAIN tree : q # a.path => tree'[q] = tree[q]
          /\ (/\ a.path \in DOMAIN tree
              /\ tree[a.path].fen = a.fen
              /\ StoredDepth(tree[a.path].ceval) < a.depth) =>
               (tree'[a.path].ceval # NoEval /\ tree'[a.path].ceval.depth = a.depth)]_vars

\* C2 witness: the engine's evaluation for a path the cursor has left is on the node
C2_Witness ==
  /\ lastOp.name = "onNewCeval"
  /\ lastOp.arg.src = "engine"
  /\ ~lastOp.arg.threatMode
  /\ lastOp.arg.path # path
  /\ lastOp.arg.path \in DOMAIN tree
  /\ tree[lastOp.arg.path].ceval # NoEval
  /\ tree[lastOp.arg.path].ceval.depth = lastOp.arg.depth
  /\ fx = <<>>

\* C3: an evaluation not in threat mode for a path with no node, or with a node
\* of another position, changes no node and has no effect (auto-shapes,
\* overlays, cache, engine stop, redraw); an evaluation in threat mode is
\* stored whatever its position.
C3_PositionGuard ==
  [][lastOp'.name = "onNewCeval" =>
       LET a == lastOp'.arg
       IN /\ (/\ ~a.threatMode
              /\ (a.path \notin DOMAIN tree \/ tree[a.path].fen # a.fen)) =>
               (tree' = tree /\ fx' = <<>> /\ ceval' = ceval /\ Cursor' = Cursor)
          /\ (/\ a.threatMode
              /\ a.path \in DOMAIN tree
              /\ StoredDepth(tree[a.path].threat) < a.depth) =>
               (/\ tree'[a.path].threat # NoEval
                /\ tree'[a.path].threat.depth = a.depth
                /\ tree'[a.path].threat.fen = a.fen
                /\ a.fen # tree[a.path].fen)]_vars

\* C3 witness: an evaluation for another position than its node's has arrived
C3_Witness ==
  /\ lastOp.name = "onNewCeval"
  /\ ~lastOp.arg.threatMode
  /\ lastOp.arg.path \in DOMAIN tree
  /\ lastOp.arg.path = path
  /\ tree[lastOp.arg.path].fen # lastOp.arg.fen
  /\ fx = <<>>

\* C4 as stated: no delivery through onNewCeval lowers the depth of the client
\* evaluation or of the threat evaluation stored on a node.
C4_StoredDepthNeverDecreases ==
  [][lastOp'.name = "onNewCeval" =>
       \A q \in DOMAIN tree :
         /\ StoredDepth(tree'[q].ceval) >= StoredDepth(tree[q].ceval)
         /\ StoredDepth(tree'[q].threat) >= StoredDepth(tree[q].threat)]_vars

\* the half of C4 the code keeps: the client evaluation's depth never decreases
C4_ClientDepthNeverDecreases ==
  [][lastOp'.name = "onNewCeval" =>
       \A q \in DOMAIN tree :
         StoredDepth(tree'[q].ceval) >= StoredDepth(tree[q].ceval)]_vars

\* the evaluation cache asks canPut
InitCache == Init

NextCache ==
  \E ep \in BOOLEAN, st \in BOOLEAN, n \in 0..(CachePly + 1),
     mt \in {-1, 0, 2}, c \in {-MaxCp, -CacheCp, 1 - CacheCp, 0, CacheCp - 1, CacheCp, MaxCp} :
    CanPutProbe(ep, st, n, mt, c)

SpecCache == InitCache /\ [][NextCache]_vars

\* the tree changes under the cursor: moves, deletions, promotions, merges, reloads
InitTree == Begin(Constructed(DataTree(0, 1), "none", TRUE, FALSE, TRUE, TRUE, TRUE))

NextTree ==
  \/ \E p \in DOMAIN tree : Jump(p)
  \/ \E m \in Moves : UserMove(m)
  \/ \E r \in sent : AddNode(r)
  \/ \E p \in destsReq : AddDests(p)
  \/ \E p \in DOMAIN tree \ {root} : DeleteNode(p, TRUE)
  \/ \E p \in DOMAIN tree \ {root} : Promote(p, TRUE)
  \/ \E k \in 0..1 : MergeAnalysisData(k, FALSE)
  \/ ToggleComputer
  \/ \E k \in 0..1 : ReloadData(data.gen, k, FALSE)

SpecTree == InitTree /\ [][NextTree]_vars

\* deletions in a long game
InitDelete ==
  \E st \in {"none", "study"}, c \in 0..1 :
    Begin(Constructed(ChainTree(c), st, TRUE, FALSE, TRUE, TRUE, TRUE))

NextDelete ==
  \/ \E p \in DOMAIN tree : Jump(p)
  \/ \E p \in DOMAIN ChainTree(0) \ {root}, confirmed \in BOOLEAN : DeleteNode(p, confirmed)

SpecDelete == InitDelete /\ [][NextDelete]_vars

\* ============================================================== claims (continued)
DeepEval(cv) == cv # NoEval /\ cv.depth >= CrashDepth

\* C5 as stated: a crash that finds on the cursor's node a client evaluation of depth
\* 20 or more, not yet retried, only sets its retried flag and keeps the
\* engine instance; the crash right after it makes a new instance with
\* failsafe=true and asks for a restart of the analysis.
C5_TwoStrikes ==
  [][lastOp'.name = "onCrash" =>
       LET cv == tree[node].ceval
       IN /\ (DeepEval(cv) /\ ~cv.retried) =>
               (/\ tree'[node].ceval.retried
                /\ ceval' = ceval
                /\ ~Has(fx', "ceval.destroy"))
          /\ (DeepEval(cv) /\ lastOp.name = "onCrash") =>
               (/\ ceval'.failsafe
                /\ Has(fx', "cevalCtrl.failsafe")
                /\ Has(fx', "startCeval"))]_vars

\* C5 amended: the same, for an engine that reports pnaclSupported; the crash of
\* an engine that does not changes neither the tree nor the engine.
C5_TwoStrikesOnNative ==
  [][lastOp'.name = "onCrash" =>
       LET cv == tree[node].ceval
       IN /\ (ceval.pnaclSupported /\ DeepEval(cv) /\ ~cv.retried) =>
               (/\ tree'[node].ceval.retried
                /\ ceval' = ceval
                /\ ~Has(fx', "ceval.destroy"))
          /\ (ceval.pnaclSupported /\ DeepEval(cv) /\ lastOp.name = "onCrash") =>
               (/\ ceval'.failsafe
                /\ Has(fx', "cevalCtrl.failsafe")
                /\ Has(fx', "startCeval"))
          /\ ~ceval.pnaclSupported => (tree' = tree /\ ceval' = ceval /\ fx' = <<>>)]_vars

\* C5 witness: the second crash in a row on a node with a deep evaluation has run
C5_Witness ==
  /\ lastOp.name = "onCrash" /\ lastOp.again
  /\ DeepEval(tree[node].ceval) /\ tree[node].ceval.retried
  /\ ceval.failsafe
  /\ Has(fx, "cevalCtrl.failsafe") /\ Has(fx, "startCeval")

\* C6 as stated: once the engine instance is a failsafe one, every later one is too.
C6_FailsafeIsPermanent == [][ceval.failsafe => ceval'.failsafe]_vars

\* C7: canPut answers true only if the server's evalPut flag is set, canGet holds
\* (study, or ply < 10) and, outside a study, the client evaluation is no mate
\* and has |cp| < 99; for ply >= 10 outside a study it answers false.
C7_CanPutEligibility ==
  /\ probe.result =>
       /\ probe.evalPut
       /\ (probe.study \/ probe.ply < CachePly)
       /\ (probe.study \/ (probe.mate = 0 /\ -CacheCp < probe.cp /\ probe.cp < CacheCp))
  /\ (probe.ply >= CachePly /\ ~probe.study) => ~probe.result

\* C7 witness: a favourable evaluation at ply 10 or more outside a study was refused
C7_Witness ==
  /\ probe.evalPut /\ ~probe.study /\ probe.ply >= CachePly
  /\ probe.mate = 0 /\ probe.cp = 0
  /\ ~probe.result

\* C8 as stated: after every handler the cursor fields are the pure function of
\* (tree, path).
C8_CursorConsistent ==
  /\ nodeList = getNodeList(tree, path)
  /\ node = treeOpsLast(nodeList)
  /\ mainline = mainlineNodeList(tree)
  /\ onMainline = pathIsMainline(tree, path)

CursorFields == <<path, node, nodeList, mainline, onMainline>>

\* C9: an addNode whose parent path does not resolve leaves the tree and the cursor
\* as they were, makes no jump (no sound, no engine stop or restart, no notice
\* to a sub-feature, no premove) and only asks for a redraw.
C9_AddNodeFailureIsInert ==
  [][(lastOp'.name = "addNode" /\ addNodePath(tree, lastOp'.arg[2], lastOp'.arg[1]) = NoNode) =>
       /\ tree' = tree
       /\ CursorFields' = CursorFields
       /\ <<ceval, thr, threatMode, fetching, destsReq>>' = <<ceval, thr, threatMode, fetching, destsReq>>
       /\ fx' = <<"log.cannotAddNode", "redraw">>]_vars

\* C9 witness: the answer to a move arrived after its parent was deleted
C9_Witness ==
  /\ lastOp.name = "addNode"
  /\ lastOp.arg[1] \notin DOMAIN tree
  /\ Has(fx, "log.cannotAddNode")

Below(T, p) == {q \in DOMAIN T : contains(q, p)}

\* C10: deleting a subtree of 10 or more nodes, or with a comment, asks for a
\* confirmation; declined, or with a path that resolves to no node, tree and cursor
\* stay as they were; else the subtree is removed and a cursor at or below the
\* path ends at its parent; the cursor's path is always a node of the tree.
C10_DeleteNode ==
  [][lastOp'.name = "deleteNode" =>
       LET p == lastOp'.arg[1]
           confirmed == lastOp'.arg[2]
           asks == p \in DOMAIN tree /\ (countNodes(tree, p) >= ConfirmNodes \/ countComments(tree, p) > 0)
       IN /\ asks <=> Has(fx', "confirm")
          /\ (p \notin DOMAIN tree \/ (asks /\ ~confirmed)) =>
               (tree' = tree /\ CursorFields' = CursorFields)
          /\ (p \in DOMAIN tree /\ (asks => confirmed)) =>
               /\ DOMAIN tree' = DOMAIN tree \ Below(tree, p)
               /\ path' = IF contains(path, p) THEN init(p) ELSE path
          /\ path' \in DOMAIN tree' /\ node' = path']_vars

\* C10 witness: a confirmed deletion of ten nodes took the cursor to the parent
C10_Witness ==
  /\ lastOp.name = "deleteNode" /\ lastOp.arg[2]
  /\ Has(fx, "confirm") /\ Has(fx, "autoplay.stop")
  /\ path = init(lastOp.arg[1])
  /\ Cardinality(DOMAIN tree) = ChainLen + 1 - ConfirmNodes

MoveSounds == {"sound.move", "sound.capture"}

\* C11: when the user plays a move that captures nothing and the server's addNode
\* for it follows, the node is created under the sent path, the cursor is on
\* the new node, one 'move' sound and no 'capture' sound was played for the
\* move, the engine is stopped and its restart requested for the new path, and
\* the justPlayed and justCaptured markers are cleared.
C11_UserMoveScenario ==
  [][\A m \in Moves :
       (/\ lastOp.name = "userMove" /\ lastOp.arg = <<m>>
        /\ lastOp'.name = "addNode" /\ lastOp'.arg = <<path, m>>
        /\ ~sanCapture(Append(path, m))) =>
         LET np == Append(path, m)
         IN /\ np \in DOMAIN tree'
            /\ np \notin DOMAIN tree => tree'[path].children = Append(tree[path].children, m)
            /\ path' = np /\ node' = np /\ nodeList' = getNodeList(tree', np)
            /\ Has(fx, "sound.move") /\ ~HasAny(fx, {"sound.capture"})
            /\ ~HasAny(fx', MoveSounds)
            /\ Has(fx', "ceval.stop") /\ Has(fx', "startCeval")
            /\ (ceval.enabled /\ thr = "idle" /\ tree'[np].dests # "" /\ ~threefold(np)) =>
                 (ceval'.work # NoWork /\ ceval'.work.path = np /\ ceval'.work.running)
            /\ (ceval'.work # NoWork /\ ceval'.work.running) => ceval'.work.path = np
            /\ justPlayed' = Undefined /\ justCaptured' = FALSE]_vars

\* C11 witness: the answer to the user's move has put the cursor on the new node
C11_Witness ==
  /\ lastOp.name = "addNode"
  /\ path = Append(lastOp.arg[1], lastOp.arg[2])
  /\ ~sanCapture(path)
  /\ ~HasAny(fx, MoveSounds)
  /\ Has(fx, "ceval.stop") /\ Has(fx, "startCeval")
  /\ justPlayed = Undefined

\* ------------------------------------------------- bursts of jumps
InitBurst ==
  \E en \in BOOLEAN : Begin(Constructed(BurstTree, "none", TRUE, en, TRUE, TRUE, TRUE))

NextBurst ==
  \/ \E p \in DOMAIN tree : Jump(p)
  \/ ToggleThreatMode
  \/ StartCevalTimer

\* the 800ms of the throttle do pass
SpecBurst == InitBurst /\ [][NextBurst]_vars /\ WF_vars(StartCevalTimer)

\* the engine works on the cursor's path, position and threat mode
WorkIsCurrent ==
  /\ ceval.work # NoWork
  /\ ceval.work.running
  /\ ceval.work.path = path
  /\ ceval.work.threatMode = threatMode
  /\ ceval.work.fen = IF threatMode THEN ThreatFen(tree[node].fen) ELSE tree[node].fen

\* the engine could work on the cursor's node and does not
Stale == ceval.enabled /\ canUseCeval(S) /\ ~WorkIsCurrent

\* C12: every jump that changes the path stops the engine; no work is ever started
\* but for the cursor's path, node and threat mode, so none for a path the
\* cursor has left; and whenever the engine is enabled and the cursor's node is
\* usable, the engine eventually works on it (or the cursor has moved on).
C12_ThrottleNeverStale ==
  /\ [][\A p \in DOMAIN tree :
          (lastOp' = Op("jump", p) /\ p # path) =>
            /\ Has(fx', "ceval.stop")
            /\ (ceval'.work # NoWork /\ ceval'.work.running) => ceval'.work.path = p]_vars
  /\ [][(ceval'.work # ceval.work /\ ceval'.work # NoWork /\ ceval'.work.running) =>
          WorkIsCurrent']_vars
  /\ [](ceval.work # NoWork /\ ceval.work.running => ceval.work.path = path)
  /\ (Stale ~> ~Stale)

\* C12 witness: the throttle has run the start that jumps within its 800ms asked for
C12_Witness ==
  /\ lastOp.name = "startCeval.timer"
  /\ Has(fx, "ceval.start")
  /\ path # root
  /\ WorkIsCurrent

Idx(f, t) == CHOOSE i \in 1..Len(f) : f[i] = t

JumpSteps ==
  {"setPath", "startCeval", "explorer.setNode", "practice.onJump", "retro.onJump",
   "study.onJump"}

\* the calls of the log f that are steps of a jump, in their order
StepsOf(f) == SelectSeq(f, LAMBDA t : t \in JumpSteps)

RunsStartCeval == lastOp'.name = "startCeval.timer" /\ thr = "pending"

\* the cursor's node is neither a finished game nor a repetition
Analysable == tree[node].dests # "" /\ ~threefold(node)

Dispatched ==
  /\ fx' = <<"ceval.start", "evalCache.fetch">>
  /\ ceval'.work # NoWork /\ ceval'.work.running
  /\ ceval'.work.path = path /\ ceval'.work.threatMode = threatMode
  /\ ceval'.work.fen = IF threatMode THEN ThreatFen(tree[node].fen) ELSE tree[node].fen
  /\ \E r \in fetching' : r.path = path

\* C14 as stated: a run of startCeval dispatches work for the cursor and fetches from
\* the cache exactly when the engine is enabled and the node analysable; in
\* every other case it stops the engine and dispatches nothing.
C14_StartOrStop ==
  [][RunsStartCeval =>
       IF ceval.enabled /\ Analysable THEN Dispatched
       ELSE /\ Has(fx', "ceval.stop")
            /\ ~Has(fx', "ceval.start") /\ ~Has(fx', "evalCache.fetch")]_vars

\* C14 amended: the same when the engine is enabled; when it is disabled the run
\* does nothing at all: it makes no call, and the engine and the pending
\* fetches stay as they are.
C14_StartStopOrNothing ==
  [][RunsStartCeval =>
       IF ceval.enabled /\ Analysable THEN Dispatched
       ELSE IF ceval.enabled
       THEN /\ fx' = <<"ceval.stop">>
            /\ ceval'.work = NoWork \/ ~ceval'.work.running
            /\ fetching' = fetching
       ELSE /\ fx' = <<>>
            /\ ceval' = ceval /\ fetching' = fetching]_vars

\* C14 witness: the throttle has run startCeval with the engine disabled
C14_Witness ==
  /\ lastOp.name = "startCeval.timer"
  /\ thr = "wait"
  /\ ~ceval.enabled
  /\ fx = <<>>

\* the engine's evaluation delivered by this step
EmittedEval ==
  [fen |-> lastOp'.arg.fen, depth |-> lastOp'.arg.depth, maxDepth |-> ceval.work.maxDepth,
   cloud |-> FALSE, retried |-> FALSE]

\* the evaluation ev is no better than the stored one and allows a greater depth
TieOnMaxDepth(ev, stored) ==
  stored # NoEval /\ ~isEvalBetter(ev, stored) /\ ev.maxDepth > stored.maxDepth

EngineDelivers(tm) ==
  /\ lastOp'.name = "onNewCeval"
  /\ lastOp'.arg.src = "engine"
  /\ lastOp'.arg.threatMode = tm
  /\ lastOp'.arg.path \in DOMAIN tree
  /\ (tm \/ tree[lastOp'.arg.path].fen = lastOp'.arg.fen)

\* C15 as stated: an evaluation that is no better than the stored one and has a
\* greater maxDepth changes the maxDepth of the stored record and no other
\* field of it, for the client evaluation and for the threat evaluation.
C15_TieUpdatesMaxDepthOnly ==
  [][/\ (EngineDelivers(FALSE) /\ TieOnMaxDepth(EmittedEval, tree[lastOp'.arg.path].ceval)) =>
          tree'[lastOp'.arg.path].ceval =
            [tree[lastOp'.arg.path].ceval EXCEPT !.maxDepth = EmittedEval.maxDepth]
     /\ (EngineDelivers(TRUE) /\ TieOnMaxDepth(EmittedEval, tree[lastOp'.arg.path].threat)) =>
          tree'[lastOp'.arg.path].threat =
            [tree[lastOp'.arg.path].threat EXCEPT !.maxDepth = EmittedEval.maxDepth]]_vars

\* the half of C15 the code keeps: the client evaluation
C15_ClientTieUpdatesMaxDepthOnly ==
  [][(EngineDelivers(FALSE) /\ TieOnMaxDepth(EmittedEval, tree[lastOp'.arg.path].ceval)) =>
       tree'[lastOp'.arg.path].ceval =
         [tree[lastOp'.arg.path].ceval EXCEPT !.maxDepth = EmittedEval.maxDepth]]_vars

\* a client evaluation took the greater maxDepth of a shallower report
C15_ClientTieReached ==
  /\ lastOp.name = "onNewCeval" /\ ~lastOp.arg.threatMode
  /\ tree[lastOp.arg.path].ceval # NoEval
  /\ tree[lastOp.arg.path].ceval.depth > lastOp.arg.depth
  /\ tree[lastOp.arg.path].ceval.maxDepth = InfiniteMaxDepth

\* ------------------------------------- crashes while the cursor stays
InitRetry == Begin(Constructed(DataTree(0, 0), "none", TRUE, TRUE, TRUE, TRUE, TRUE))

NextRetry ==
  \/ StartCevalTimer
  \/ \E d \in Depths \cup {InfiniteMaxDepth} :
       ceval.work # NoWork /\ d <= ceval.work.maxDepth /\ EngineEmit(d)
  \/ \E r \in fetching : CacheReceive(r, CrashDepth)
  \/ CevalSetInfinite(TRUE)
  \/ EngineCrash

SpecRetry == InitRetry /\ [][NextRetry]_vars

\* C16 as stated: on a node where one crash left the engine as it was, every
\* later crash makes a new engine with failsafe=true.
C16_OneAbsorbedCrashPerNode ==
  [][(lastOp'.name = "onCrash" /\ node \in absorbed) =>
       (ceval'.failsafe /\ Has(fx', "cevalCtrl.failsafe"))]_vars

\* what the code keeps of C16: a crash that finds the retried flag on the node's
\* client evaluation makes a new engine with failsafe=true
C16_OneAbsorbedCrashPerEval ==
  [][(/\ lastOp'.name = "onCrash"
      /\ tree[node].ceval # NoEval
      /\ tree[node].ceval.retried) =>
       (ceval'.failsafe /\ Has(fx', "cevalCtrl.failsafe"))]_vars

\* ------------------- the events that restart the engine where the cursor is
NextFetch ==
  \/ \E p \in DOMAIN tree : Jump(p)
  \/ StartCevalTimer
  \/ ToggleCeval
  \/ ToggleThreatMode
  \/ \E v \in BOOLEAN : CevalSetInfinite(v)
  \/ EngineCrash

SpecFetch == InitBurst /\ [][NextFetch]_vars

FetchOutstanding(p) == \E r \in fetching : r.path = p

\* C17 as stated: while the cursor stays on a path for which a fetch is outstanding,
\* no handler calls evalCache.fetch.
C17_OneFetchPerPath ==
  [][(path' = path /\ FetchOutstanding(path)) => ~Has(fx', "evalCache.fetch")]_vars

\* C17 amended: the controller calls evalCache.fetch for the cursor's path in every
\* run of startCeval that starts the engine, and nowhere else, whether or not a
\* fetch for the path is outstanding.
C17_FetchAtEveryStart ==
  [][/\ Has(fx', "evalCache.fetch") <=> Has(fx', "ceval.start")
     /\ Has(fx', "ceval.start") =>
          /\ Idx(fx', "evalCache.fetch") = Idx(fx', "ceval.start") + 1
          /\ ceval'.work # NoWork /\ ceval'.work.path = path']_vars

\* C17 witness: a threat-mode toggle has called evalCache.fetch for the path of
\* the fetch already outstanding
C17_Witness ==
  /\ lastOp.name = "toggleThreatMode"
  /\ ~threatMode
  /\ Has(fx, "evalCache.fetch")
  /\ FetchOutstanding(path)

\* ------------------------------------------ the settings of the engine
Settings == 1..MaxSetting

InitSetters ==
  \E en \in BOOLEAN : Begin(Constructed(DataTree(0, 1), "none", TRUE, en, TRUE, TRUE, TRUE))

NextSetters ==
  \/ \E p \in DOMAIN tree : Jump(p)
  \/ StartCevalTimer
  \/ EngineEmit(CrashDepth)
  \/ ToggleCeval
  \/ \E v \in BOOLEAN : CevalSetInfinite(v)
  \/ \E v \in Settings : CevalSetMultiPv(v)
  \/ \E v \in Settings : CevalSetThreads(v)
  \/ \E v \in Settings : CevalSetHashSize(v)

SpecSetters == InitSetters /\ [][NextSetters]_vars

SetterNames == {"cevalSetMultiPv", "cevalSetThreads", "cevalSetHashSize", "cevalSetInfinite"}

\* C18: each setter stops the engine, applies its setting, leaves the engine
\* enabled and requests a restart, so that work that runs when it returns was
\* started by it; cevalSetMultiPv also leaves no client evaluation in the tree.
C18_SettersRestart ==
  [][lastOp'.name \in SetterNames =>
       LET v == lastOp'.arg[1]
       IN /\ Has(fx', "ceval.stop") /\ Has(fx', "startCeval")
          /\ Idx(fx', "ceval.stop") < Idx(fx', "startCeval")
          /\ ceval'.enabled
          /\ lastOp'.name = "cevalSetMultiPv" => ceval'.multiPv = v
          /\ lastOp'.name = "cevalSetThreads" => ceval'.threads = v
          /\ lastOp'.name = "cevalSetHashSize" => ceval'.hashSize = v
          /\ lastOp'.name = "cevalSetInfinite" => ceval'.infinite = v
          /\ (ceval'.work # NoWork /\ ceval'.work.running) =>
               /\ Has(fx', "ceval.start")
               /\ Idx(fx', "ceval.stop") < Idx(fx', "ceval.start")
               /\ ceval'.work.maxDepth = effectiveMaxDepth(ceval')
               /\ ceval'.work.path = path
          /\ lastOp'.name = "cevalSetMultiPv" =>
               \A q \in DOMAIN tree' : tree'[q].ceval = NoEval]_vars

\* C18 witness: cevalSetMultiPv, called within the 800ms of the throttle, has
\* stopped the engine's work and left no client evaluation in the tree
C18_Witness ==
  /\ lastOp.name = "cevalSetMultiPv"
  /\ ceval.multiPv = MaxSetting
  /\ ceval.enabled
  /\ thr = "pending"
  /\ ceval.work # NoWork /\ ~ceval.work.running
  /\ \A q \in DOMAIN tree : tree[q].ceval = NoEval


\* ---------------------------------------------------------------- C19
\* what the practice session is told by a userJump from `from` asked to go to `to`
\* that leaves the cursor on `now`
HookArgs(from, to, now) ==
  <<[hook |-> "practice.preUserJump", from |-> from, to |-> to],
    [hook |-> "practice.postUserJump", from |-> from, to |-> now]>>

\* C19: userJump(path) stops autoplay and clears the board's square selection
\* before the jump, in all cases. With a practice session it calls
\* practice.preUserJump(prev, path) before the cursor is set and
\* practice.postUserJump(prev, newPath) as its last call, after the whole of jump
\* and so after jump's own practice.onJump; prev is the cursor's path before the
\* jump and newPath the cursor's path after it. Without a practice session
\* neither hook is called.
C19_UserJumpHookOrder ==
  [][lastOp'.name = "userJump" =>
       /\ Len(fx') >= 3
       /\ fx'[1] = "autoplay.stop"
       /\ fx'[2] = "selectSquare"
       /\ Has(fx', "setPath") /\ Idx(fx', "setPath") > 2
       /\ path' = lastOp'.arg
       /\ practice' = practice
       /\ IF practice
          THEN /\ fx'[3] = "practice.preUserJump"
               /\ Idx(fx', "setPath") > 3
               /\ fx'[Len(fx')] = "practice.postUserJump"
               /\ Idx(fx', "explorer.setNode") < Len(fx')
               /\ path' # path =>
                    /\ Has(fx', "practice.onJump")
                    /\ Idx(fx', "practice.onJump") < Len(fx')
               /\ hooks' = HookArgs(path, lastOp'.arg, path')
          ELSE /\ ~Has(fx', "practice.preUserJump")
               /\ ~Has(fx', "practice.postUserJump")
               /\ hooks' = <<>>]_vars

\* C19 witness: a userJump with a practice session has moved the cursor, and the
\* session heard preUserJump, onJump and postUserJump, in that order
C19_Witness ==
  /\ lastOp.name = "userJump"
  /\ practice
  /\ Len(hooks) = 2
  /\ hooks[1].from # path
  /\ hooks[2].from = hooks[1].from
  /\ hooks[2].to = path
  /\ Has(fx, "practice.onJump")
  /\ fx[3] = "practice.preUserJump"
  /\ fx[Len(fx)] = "practice.postUserJump"


\* ---------------------------------------------------------------- C20
InitVeto ==
  \E st \in {"none", "study"}, en \in BOOLEAN :
    Begin(Constructed(BurstTree, st, TRUE, en, TRUE, TRUE, TRUE))

\* jumps that ask the study first, from cursors in and out of threat mode and of
\* a practice session
NextVeto ==
  \/ \E p \in DOMAIN tree, can \in BOOLEAN : UserJumpIfCan(p, can)
  \/ ToggleThreatMode
  \/ TogglePractice
  \/ StartCevalTimer

SpecVeto == InitVeto /\ [][NextVeto]_vars

\* the study said no to the jump that was asked for
Vetoed(op) == study # "none" /\ ~op.arg.can

\* C20: when a study is attached and its canJumpTo(path) is false,
\* userJumpIfCan(path) changes nothing: cursor, tree, threatMode, transient
\* markers, engine state, throttle and requests in flight are unchanged, and the
\* only call made on a collaborator is the question to the study (no sound, no
\* notification, autoplay not stopped). When no study is attached or canJumpTo is
\* true it leaves the controller as userJump(path) does and makes the calls
\* userJump(path) makes.
C20_JumpVeto ==
  [][lastOp'.name = "userJumpIfCan" =>
       LET asked == IF study # "none" THEN <<"study.canJumpTo">> ELSE <<>>
           u == userJump(S, lastOp'.arg.path)
       IN IF Vetoed(lastOp')
          THEN Commit([S EXCEPT !.fx = asked])
          ELSE Commit([u EXCEPT !.fx = asked \o @])]_vars

\* C20 witness: the study has refused a jump to another path, asked for in threat
\* mode with engine work running
C20_Witness ==
  /\ lastOp.name = "userJumpIfCan"
  /\ Vetoed(lastOp)
  /\ lastOp.arg.path # path
  /\ threatMode
  /\ ceval.work # NoWork
  /\ fx = <<"study.canJumpTo">>


\* ---------------------------------------------------------------- C21
\* the game's first two moves, the second one giving check; the engine may be
\* enabled or not, and possible or not
InitToggle ==
  \E en \in BOOLEAN, pos \in BOOLEAN :
    Begin(Constructed(DataTree(0, 2), "none", TRUE, en, pos, TRUE, TRUE))

NextToggle ==
  \/ \E p \in DOMAIN tree : Jump(p)
  \/ ToggleThreatMode
  \/ ToggleCeval
  \/ TogglePractice
  \/ StartCevalTimer

SpecToggle == InitToggle /\ [][NextToggle]_vars

\* C21: toggleThreatMode does nothing when the current node is in check;
\* otherwise it enables the engine if it was disabled (and can be enabled) and
\* flips threatMode exactly when the engine is enabled afterwards. threatMode
\* becomes true only by toggleThreatMode and only with the engine enabled. A
\* toggleCeval that leaves the engine disabled, and every jump that changes the
\* path, leave threatMode false.
C21_ThreatModeToggle ==
  [][/\ lastOp'.name = "toggleThreatMode" =>
          IF nodeCheck(S) THEN Commit(S)
          ELSE /\ ceval'.enabled = (ceval.enabled \/ ceval.possible)
               /\ threatMode' = IF ceval'.enabled THEN ~threatMode ELSE threatMode
     /\ (threatMode' /\ ~threatMode) =>
          lastOp'.name = "toggleThreatMode" /\ ceval'.enabled
     /\ (lastOp'.name = "toggleCeval" /\ ~ceval'.enabled) => ~threatMode'
     /\ (lastOp'.name = "jump" /\ path' # path) => ~threatMode']_vars

\* C21 witness: toggleThreatMode found the engine disabled, enabled it and turned
\* threat mode on
C21_Witness ==
  /\ lastOp.name = "toggleThreatMode"
  /\ threatMode
  /\ ceval.enabled
  /\ Len(fx) >= 1 /\ fx[1] = "ceval.stop"
  /\ ~nodeCheck(S)


\* ---------------------------------------------------------------- C22
\* reloads of the data, into the same game or another one, between jumps and
\* toggles of the threat mode
NextReload ==
  \/ \E p \in DOMAIN tree : Jump(p)
  \/ ToggleThreatMode
  \/ ToggleCeval
  \/ \E g \in data.gen..MaxGen, k \in 0..1, mf \in BOOLEAN : ReloadData(g, k, mf)
  \/ StartCevalTimer

SpecReload == InitToggle /\ [][NextReload]_vars

\* C22: in every reachable state threatMode is true only if the cursor's node is
\* not in check, however the cursor's node came to be the current one (jump,
\* addNode, deleteNode, promote, reloadData).
C22_NoThreatModeInCheck == threatMode => ~nodeCheck(S)

\* the handlers other than reloadData keep threat mode off the nodes in check
C22_NoThreatModeInCheckButReload ==
  [][(lastOp'.name # "reloadData" /\ ~(threatMode /\ nodeCheck(S))) =>
       ~(threatMode' /\ nodeCheck(S)')]_vars

\* reloadData has left the cursor in threat mode on a root that is in check
C22_ReloadedInCheck ==
  /\ lastOp.name = "reloadData"
  /\ threatMode
  /\ path = root
  /\ nodeCheck(S)


\* ---------------------------------------------------------------- C23
\* a game of two moves that ends in checkmate (mate) or in stalemate; the
\* destinations of its last node are not known yet
TerminalTree(mate) ==
  LET add(T, q, d) == treeAddNode(T, 0, last(q), d, init(q))
      T0 == [DataTree(0, 0) EXCEPT ![root].dests = "some"]
  IN IF mate THEN add(add(T0, <<1>>, "some"), <<1, 2>>, "undefined")
     ELSE add(add(T0, <<2>>, "some"), <<2, 1>>, "undefined")

InitTerminal ==
  \E en \in BOOLEAN, mate \in BOOLEAN :
    Begin(Constructed(TerminalTree(mate), "none", TRUE, en, TRUE, TRUE, TRUE))

\* the destinations arrive while the engine works, is throttled, is toggled,
\* reconfigured or crashes
NextTerminal ==
  \/ \E p \in DOMAIN tree : Jump(p)
  \/ \E p \in destsReq : AddDests(p)
  \/ StartCevalTimer
  \/ ToggleCeval
  \/ ToggleThreatMode
  \/ \E v \in BOOLEAN : CevalSetInfinite(v)
  \/ EngineCrash

SpecTerminal == InitTerminal /\ [][NextTerminal]_vars

\* the engine has a work item it has not been told to stop
EngineRunning == ceval.work # NoWork /\ ceval.work.running

\* C23: whenever the cursor's node is game-over (its destinations are known and
\* empty) after a handler completes, the engine is stopped. No handler, and no
\* run of the throttled startCeval, starts a work item while the cursor's node is
\* game-over, and an addDests that makes the cursor's node game-over calls
\* ceval.stop.
C23_NoAnalysisOfTerminalNode ==
  /\ [](gameOver(S) # "false" => ~EngineRunning)
  /\ [][gameOver(S)' # "false" => ~Has(fx', "ceval.start")]_vars
  /\ [][(lastOp'.name = "addDests" /\ lastOp'.arg = path /\ gameOver(S)' # "false") =>
          Has(fx', "ceval.stop")]_vars

\* C23 witness: empty destinations have arrived for the cursor's node while the
\* engine had a work item and a throttled startCeval was pending
C23_Witness ==
  /\ lastOp.name = "addDests"
  /\ lastOp.arg = path
  /\ gameOver(S) # "false"
  /\ thr = "pending"
  /\ ceval.enabled
  /\ ceval.work # NoWork
  /\ ceval.work.path = path
  /\ Has(fx, "ceval.stop")

====
